---- MODULE Spec2Model ----
(***************************************************************************)
(* A model of scale-value's text codec:                                    *)
(*   src/src/string_impls/from_string.rs  (from_str: text -> Value)        *)
(*   src/src/string_impls/to_string.rs    (Display:  Value -> text)        *)
(*                                                                         *)
(* A text is a sequence of characters; a character is a one-character      *)
(* string.  The cursor of the parser (yap's Tokens over a &str) is the     *)
(* pair (s, i): the text and the number of characters consumed so far.     *)
(* Offsets reported in errors are byte offsets, as t.offset() is.          *)
(***************************************************************************)
EXTENDS Integers, Sequences, FiniteSets, TLC

VARIABLES pc, val, fmt, text, res, rest, fmt2, scan

vars == <<pc, val, fmt, text, res, rest, fmt2, scan>>

(***************************************************************************)
(* Characters.                                                             *)
(***************************************************************************)

\* U+0000, which a TLA+ string cannot hold.
NUL == "NUL"

\* char::is_digit(10)
Digits == {"0", "1", "2", "3", "4", "5", "6", "7", "8", "9"}

\* char::is_alphabetic, on the characters the model uses.
Alphabetic ==
    {"a", "b", "c", "d", "e", "f", "g", "h", "i", "j", "k", "l", "m", "n", "o", "p",
     "q", "r", "s", "t", "u", "v", "w", "x", "y", "z", "A", "B", "C", "D", "E", "F",
     "G", "H", "I", "J", "K", "L", "M", "N", "O", "P", "Q", "R", "S", "T", "U", "V",
     "W", "X", "Y", "Z", "é"}

\* char::is_alphanumeric
Alphanumeric == Alphabetic \cup Digits

\* char::is_whitespace
Whitespace == {" ", "\t", "\n", "\r"}

is_digit(c) == c \in Digits

is_alphabetic(c) == c \in Alphabetic

is_alphanumeric(c) == c \in Alphanumeric

is_whitespace(c) == c \in Whitespace

\* char::len_utf8
len_utf8(c) == IF c = "é" THEN 2 ELSE 1

DigitVal(c) ==
    CASE c = "0" -> 0 [] c = "1" -> 1 [] c = "2" -> 2 [] c = "3" -> 3
      [] c = "4" -> 4 [] c = "5" -> 5 [] c = "6" -> 6 [] c = "7" -> 7
      [] c = "8" -> 8 [] c = "9" -> 9

DigitChar(d) ==
    CASE d = 0 -> "0" [] d = 1 -> "1" [] d = 2 -> "2" [] d = 3 -> "3"
      [] d = 4 -> "4" [] d = 5 -> "5" [] d = 6 -> "6" [] d = 7 -> "7"
      [] d = 8 -> "8" [] d = 9 -> "9"

(***************************************************************************)
(* The escape codec (string_helpers).                                      *)
(***************************************************************************)

None == [none |-> TRUE]

Some(x) == [some |-> x]

from_escape_code(c) ==
    CASE c = "n" -> Some("\n")
      [] c = "t" -> Some("\t")
      [] c = "\"" -> Some("\"")
      [] c = "'" -> Some("'")
      [] c = "r" -> Some("\r")
      [] c = "\\" -> Some("\\")
      [] c = "0" -> Some(NUL)
      [] OTHER -> None

to_escape_code(c) ==
    CASE c = "\n" -> Some("n")
      [] c = "\t" -> Some("t")
      [] c = "\"" -> Some("\"")
      [] c = "'" -> Some("'")
      [] c = "\r" -> Some("r")
      [] c = "\\" -> Some("\\")
      [] c = NUL -> Some("0")
      [] OTHER -> None

(***************************************************************************)
(* 128-bit integers.  A u128 is eight 16-bit limbs, least significant      *)
(* first; an i128 is a sign and a magnitude of at most 2^127.              *)
(***************************************************************************)

LimbBase == 65536

NumLimbs == 8

Zero128 == [k \in 1..NumLimbs |-> 0]

\* The u128 of a number below 2^16.
U(n) == [k \in 1..NumLimbs |-> IF k = 1 THEN n ELSE 0]

U128_MAX == [k \in 1..NumLimbs |-> LimbBase - 1]

\* 2^127, the magnitude of i128::MIN.
I128_MIN_MAG == [k \in 1..NumLimbs |-> IF k = NumLimbs THEN LimbBase \div 2 ELSE 0]

RECURSIVE MulAddFrom(_, _, _, _)
\* Limbs k.. of n * m + carry, and the carry out of the top limb.
MulAddFrom(n, m, carry, k) ==
    IF k > NumLimbs THEN [limbs |-> <<>>, carry |-> carry]
    ELSE LET cur == n[k] * m + carry
             up == MulAddFrom(n, m, cur \div LimbBase, k + 1)
         IN  [limbs |-> <<cur % LimbBase>> \o up.limbs, carry |-> up.carry]

\* u128::checked_mul(10) then checked_add(d): None on overflow.
checked_mul10_add(n, d) ==
    LET r == MulAddFrom(n, 10, d, 1)
    IN  IF r.carry # 0 THEN None ELSE Some(r.limbs)

RECURSIVE DivMod10From(_, _, _)
\* Long division of n by 10 from limb k downwards with the remainder rem.
DivMod10From(n, rem, k) ==
    IF k < 1 THEN [q |-> <<>>, r |-> rem]
    ELSE LET cur == rem * LimbBase + n[k]
             lo == DivMod10From(n, cur % 10, k - 1)
         IN  [q |-> lo.q \o <<cur \div 10>>, r |-> lo.r]

RECURSIVE fmt_u128(_)
\* <u128 as Display>::fmt: the decimal digits, most significant first.
fmt_u128(n) ==
    LET dm == DivMod10From(n, 0, NumLimbs)
    IN  IF dm.q = Zero128 THEN <<DigitChar(dm.r)>>
        ELSE fmt_u128(dm.q) \o <<DigitChar(dm.r)>>

RECURSIVE GreaterFrom(_, _, _)
\* a > b, compared from limb k downwards.
GreaterFrom(a, b, k) ==
    IF k < 1 THEN FALSE
    ELSE IF a[k] # b[k] THEN a[k] > b[k]
    ELSE GreaterFrom(a, b, k - 1)

Greater128(a, b) == GreaterFrom(a, b, NumLimbs)

RECURSIVE ParseDigitsFrom(_, _, _)
\* The digits ds[k..] folded into acc: None on overflow of 128 bits.
ParseDigitsFrom(ds, k, acc) ==
    IF k > Len(ds) THEN Some(acc)
    ELSE LET nxt == checked_mul10_add(acc, DigitVal(ds[k]))
         IN  IF nxt = None THEN None ELSE ParseDigitsFrom(ds, k + 1, nxt.some)

\* str::parse::<u128>() of a non-empty run of digits.
parse_u128(ds) ==
    LET r == ParseDigitsFrom(ds, 1, Zero128)
    IN  IF r = None THEN [ok |-> FALSE, e |-> "PosOverflow"]
        ELSE [ok |-> TRUE, n |-> r.some]

\* A parse of the magnitude as a u128, without the range of i128.
parse_i128_neg_as_u128(ds) ==
    LET r == ParseDigitsFrom(ds, 1, Zero128)
    IN  IF r = None THEN [ok |-> FALSE, e |-> "NegOverflow"]
        ELSE [ok |-> TRUE, neg |-> r.some # Zero128, n |-> r.some]

\* str::parse::<i128>() of "-" followed by a non-empty run of digits.
parse_i128_neg(ds) ==
    LET r == ParseDigitsFrom(ds, 1, Zero128)
    IN  IF r = None \/ Greater128(r.some, I128_MIN_MAG)
        THEN [ok |-> FALSE, e |-> "NegOverflow"]
        ELSE [ok |-> TRUE, neg |-> r.some # Zero128, n |-> r.some]

(***************************************************************************)
(* Values (crate::value).                                                  *)
(***************************************************************************)

\* The context of a freshly parsed value: the unit type.
Unit == "()"

Value(ctx, def) == [context |-> ctx, value |-> def]

Primitive_Bool(b) == [t |-> "Bool", b |-> b]

Primitive_Char(c) == [t |-> "Char", c |-> c]

Primitive_String(s) == [t |-> "String", s |-> s]

\* Primitive::uint
Primitive_U128(n) == [t |-> "U128", n |-> n]

\* Primitive::int: the magnitude n, negated when neg.
Primitive_I128(neg, n) == [t |-> "I128", neg |-> neg, n |-> n]

Primitive_U256(n) == [t |-> "U256", n |-> n]

Primitive_I256(n) == [t |-> "I256", n |-> n]

ValueDef_Primitive(p) == [t |-> "Primitive", p |-> p]

ValueDef_BitSequence(bits) == [t |-> "BitSequence", bits |-> bits]

ValueDef_Composite(c) == [t |-> "Composite", c |-> c]

ValueDef_Variant(v) == [t |-> "Variant", v |-> v]

\* Composite::Named: a sequence of <<name, value>> pairs.
Composite_Named(vals) == [t |-> "Named", vals |-> vals]

Composite_Unnamed(vals) == [t |-> "Unnamed", vals |-> vals]

Variant(name, values) == [name |-> name, values |-> values]

\* Value::bool, Value::char, Value::string, Value::primitive, Value::bit_sequence
\* and the From impls the parser uses: all build a Value<()>.
Value_primitive(p) == Value(Unit, ValueDef_Primitive(p))

Value_bool(b) == Value_primitive(Primitive_Bool(b))

Value_char(c) == Value_primitive(Primitive_Char(c))

Value_string(s) == Value_primitive(Primitive_String(s))

Value_bit_sequence(bits) == Value(Unit, ValueDef_BitSequence(bits))

Value_from_composite(c) == Value(Unit, ValueDef_Composite(c))

Value_from_variant(v) == Value(Unit, ValueDef_Variant(v))

RECURSIVE remove_context(_)
RECURSIVE remove_context_composite(_)
\* Composite::map_context(|_| ())
remove_context_composite(c) ==
    IF c.t = "Named"
    THEN Composite_Named(
             [k \in 1..Len(c.vals) |-> <<c.vals[k][1], remove_context(c.vals[k][2])>>])
    ELSE Composite_Unnamed([k \in 1..Len(c.vals) |-> remove_context(c.vals[k])])

\* Value::remove_context
remove_context(v) ==
    LET d == v.value
    IN  CASE d.t = "Composite" ->
                 Value(Unit, ValueDef_Composite(remove_context_composite(d.c)))
          [] d.t = "Variant" ->
                 Value(Unit, ValueDef_Variant(
                     Variant(d.v.name, remove_context_composite(d.v.values))))
          [] OTHER -> Value(Unit, d)

(***************************************************************************)
(* Parse errors.                                                           *)
(***************************************************************************)

\* ParseError::new_at
new_at(err, loc) == [start_loc |-> loc, end_loc |-> None, err |-> err]

\* ParseError::new_between
new_between(err, start, end) == [start_loc |-> start, end_loc |-> Some(end), err |-> err]

\* at_between!: at, at_one, between
at(err, loc) == new_at(err, loc)

\* at_one with an end that is its start
at_one_without_next(err, loc) == new_between(err, loc, loc)

at_one(err, loc) == new_between(err, loc, loc + 1)

between(err, start, end) == new_between(err, start, end)

ExpectedValue == <<"ExpectedValue">>

InvalidStartingCharacterInIdent == <<"Complex", "InvalidStartingCharacterInIdent">>

InvalidFieldName == <<"Complex", "InvalidFieldName">>

MissingFieldSeparator(c) == <<"Complex", "MissingFieldSeparator", c>>

ExpectedCloserToMatch(c, start) == <<"Complex", "ExpectedCloserToMatch", c, start>>

Char_ExpectedValidCharacter == <<"Char", "ExpectedValidCharacter">>

Char_ExpectedValidEscapeCode == <<"Char", "ExpectedValidEscapeCode">>

Char_ExpectedClosingQuoteToMatch(start) == <<"Char", "ExpectedClosingQuoteToMatch", start>>

String_ExpectedClosingQuoteToMatch(start) == <<"String", "ExpectedClosingQuoteToMatch", start>>

String_ExpectedValidEscapeCode == <<"String", "ExpectedValidEscapeCode">>

ExpectedDigit == <<"Number", "ExpectedDigit">>

ParsingFailed(e) == <<"Number", "ParsingFailed", e>>

ExpectedClosingBracketToMatch(start) == <<"BitSequence", "ExpectedClosingBracketToMatch", start>>

(***************************************************************************)
(* The cursor (yap::Tokens over a &str).                                   *)
(***************************************************************************)

RECURSIVE ByteLen(_, _)
\* The bytes of the first i characters of s.
ByteLen(s, i) == IF i = 0 THEN 0 ELSE ByteLen(s, i - 1) + len_utf8(s[i])

\* Tokens::offset: the byte offset of the cursor.
offset(s, i) == ByteLen(s, i)

\* Tokens::remaining
remaining(s, i) == SubSeq(s, i + 1, Len(s))

\* Tokens::token: whether the next character is c (it is consumed only then).
token(s, i, c) == i < Len(s) /\ s[i + 1] = c

\* Tokens::tokens: whether the text continues with lit (consumed only then).
tokens(s, i, lit) == i + Len(lit) <= Len(s) /\ SubSeq(s, i + 1, i + Len(lit)) = lit

RECURSIVE skip_tokens_while(_, _, _)
\* Tokens::skip_tokens_while: the cursor after the characters of class.
skip_tokens_while(s, i, class) ==
    IF i < Len(s) /\ s[i + 1] \in class THEN skip_tokens_while(s, i + 1, class) ELSE i

\* The outcome of a parser that leaves the cursor at i:
\* Ok(v), Err(None) (no match) or Err(Some(e)) (a hard error).
Ok(v, i) == [k |-> "Ok", v |-> v, i |-> i]

NoMatch(i) == [k |-> "None", i |-> i]

Err(e, i) == [k |-> "Err", e |-> e, i |-> i]

\* transpose_err, and what yap::one_of! does with its outcome: Some(_) is the
\* result, None has the cursor put back and the other alternatives tried.
one_of(r, others) == IF r.k # "None" THEN r ELSE others

\* Option::ok of a Result: an error becomes None.
ok(r) == IF r.k = "Ok" THEN r ELSE NoMatch(r.i)

(***************************************************************************)
(* The parser (from_string.rs).  An alternative of yap::one_of! that       *)
(* yields None has the cursor put back to where the alternative started,   *)
(* so every alternative below starts at the position of the one_of!.       *)
(***************************************************************************)

\* skip_whitespace: the cursor after any whitespace.
skip_whitespace(s, i) == skip_tokens_while(s, i, Whitespace)

\* skip_spaced_separator without the whitespace before the separator.
skip_spaced_separator_no_leading(s, i, c) ==
    LET is_sep == token(s, i, c)
        i2 == IF is_sep THEN i + 1 ELSE i
    IN  [is_sep |-> is_sep, i |-> skip_whitespace(s, i2)]

\* skip_spaced_separator: whether the separator c was there, and the cursor after.
skip_spaced_separator(s, i, c) ==
    LET i1 == skip_whitespace(s, i)
        is_sep == token(s, i1, c)
        i2 == IF is_sep THEN i1 + 1 ELSE i1
    IN  [is_sep |-> is_sep, i |-> skip_whitespace(s, i2)]

\* parse_bool: Some(b) as Ok(b), None as a no match.
parse_bool(s, i) ==
    IF tokens(s, i, <<"t", "r", "u", "e">>) THEN Ok(TRUE, i + 4)
    ELSE IF tokens(s, i, <<"f", "a", "l", "s", "e">>) THEN Ok(FALSE, i + 5)
    ELSE NoMatch(i)

parse_char(s, i) ==
    LET start == offset(s, i)
        closing(c, j) ==
            IF ~token(s, j, "'")
            THEN Err(at_one(Char_ExpectedClosingQuoteToMatch(start), offset(s, j)), j)
            ELSE Ok(c, j + 1)
    IN  IF ~token(s, i, "'") THEN NoMatch(i)
        ELSE IF i + 1 >= Len(s)
        THEN Err(at_one(Char_ExpectedValidCharacter, offset(s, i + 1)), i + 1)
        ELSE LET char == s[i + 2]
             IN  IF char = "\\"
                 THEN IF i + 2 >= Len(s)
                      THEN Err(at_one(Char_ExpectedValidEscapeCode, offset(s, i + 2)), i + 2)
                      ELSE LET unescaped == from_escape_code(s[i + 3])
                           IN  IF unescaped = None
                               THEN Err(at_one(Char_ExpectedValidEscapeCode,
                                               offset(s, i + 3)), i + 3)
                               ELSE closing(unescaped.some, i + 3)
                 ELSE closing(char, i + 2)

\* The closure with an underscore taken only right after a digit.
number_token_right_after_digit(c, seen_n) ==
    IF is_digit(c) THEN [take |-> TRUE, seen_n |-> TRUE]
    ELSE [take |-> seen_n /\ c = "_", seen_n |-> FALSE]

\* The closure given to tokens_while in parse_number: whether c belongs to
\* the digit run, and seen_n afterwards.
number_token(c, seen_n) ==
    IF is_digit(c) THEN [take |-> TRUE, seen_n |-> TRUE]
    ELSE [take |-> seen_n /\ c = "_", seen_n |-> seen_n]

RECURSIVE number_run(_, _, _)
\* tokens_while in parse_number: the cursor after the digit run, and seen_n.
number_run(s, i, seen_n) ==
    IF i >= Len(s) THEN [i |-> i, seen_n |-> seen_n]
    ELSE LET tk == number_token(s[i + 1], seen_n)
         IN  IF tk.take THEN number_run(s, i + 1, tk.seen_n)
             ELSE [i |-> i, seen_n |-> tk.seen_n]

\* parse_number with the error of a sign without a digit put at the sign.
parse_number_error_at_sign(s, i) ==
    LET start_loc == offset(s, i)
        plus == token(s, i, "+")
        minus == ~plus /\ token(s, i, "-")
        is_positive == plus \/ ~minus
        i1 == IF plus \/ minus THEN i + 1 ELSE i
        run == number_run(s, i1, FALSE)
        digits == SelectSeq(SubSeq(s, i1 + 1, run.i), is_digit)
        end_loc == offset(s, run.i)
    IN  IF end_loc = start_loc THEN NoMatch(run.i)
        ELSE IF ~run.seen_n
        THEN Err(between(ExpectedDigit, start_loc, start_loc + 1), run.i)
        ELSE IF is_positive
        THEN LET n == parse_u128(digits)
             IN  IF n.ok THEN Ok(Primitive_U128(n.n), run.i)
                 ELSE Err(between(ParsingFailed(n.e), start_loc, end_loc), run.i)
        ELSE LET n == parse_i128_neg(digits)
             IN  IF n.ok THEN Ok(Primitive_I128(n.neg, n.n), run.i)
                 ELSE Err(between(ParsingFailed(n.e), start_loc, end_loc), run.i)

parse_number(s, i) ==
    LET start_loc == offset(s, i)
        plus == token(s, i, "+")
        minus == ~plus /\ token(s, i, "-")
        is_positive == plus \/ ~minus
        i1 == IF plus \/ minus THEN i + 1 ELSE i
        run == number_run(s, i1, FALSE)
        digits == SelectSeq(SubSeq(s, i1 + 1, run.i), is_digit)
        end_loc == offset(s, run.i)
    IN  IF end_loc = start_loc THEN NoMatch(run.i)
        ELSE IF ~run.seen_n
        THEN Err(between(ExpectedDigit, end_loc, end_loc + 1), run.i)
        ELSE IF is_positive
        THEN LET n == parse_u128(digits)
             IN  IF n.ok THEN Ok(Primitive_U128(n.n), run.i)
                 ELSE Err(between(ParsingFailed(n.e), start_loc, end_loc), run.i)
        ELSE LET n == parse_i128_neg(digits)
             IN  IF n.ok THEN Ok(Primitive_I128(n.neg, n.n), run.i)
                 ELSE Err(between(ParsingFailed(n.e), start_loc, end_loc), run.i)

RECURSIVE string_loop(_, _, _, _, _)
\* The loop of parse_string with the cursor at j.
string_loop(s, j, out, next_is_escaped, start) ==
    LET pos == offset(s, j)
    IN  IF j >= Len(s)
        THEN Err(at_one(String_ExpectedClosingQuoteToMatch(start), offset(s, j)), j)
        ELSE LET char == s[j + 1]
             IN  IF char = "\\" /\ ~next_is_escaped
                 THEN string_loop(s, j + 1, out, TRUE, start)
                 ELSE IF next_is_escaped
                 THEN LET c == from_escape_code(char)
                      IN  IF c = None
                          THEN Err(between(String_ExpectedValidEscapeCode, pos, pos + 1),
                                   j + 1)
                          ELSE string_loop(s, j + 1, Append(out, c.some), FALSE, start)
                 ELSE IF char = "\"" THEN Ok(out, j + 1)
                 ELSE string_loop(s, j + 1, Append(out, char), FALSE, start)

parse_string(s, i) ==
    IF ~token(s, i, "\"") THEN NoMatch(i)
    ELSE string_loop(s, i + 1, <<>>, FALSE, offset(s, i))

\* parse_ident: Ok(ident) or a hard error, never a no match.
parse_ident(s, i) ==
    LET i1 == skip_tokens_while(s, i, Alphabetic)
        i2 == skip_tokens_while(s, i1, Alphanumeric \cup {"_"})
    IN  IF i1 = i THEN Err(at_one(InvalidStartingCharacterInIdent, offset(s, i)), i)
        ELSE Ok(SubSeq(s, i + 1, i2), i2)

\* parse_i_string: Some(name) as Ok(name), None as a no match.
parse_i_string(s, i) ==
    IF i >= Len(s) THEN NoMatch(i)
    ELSE IF s[i + 1] # "v" THEN NoMatch(i + 1)
    ELSE ok(parse_string(s, i + 1))

\* parse_optional_variant_ident with the cursor left where parse_i_string
\* stopped when it reported a no match.
parse_optional_variant_ident_no_reset(s, i) ==
    one_of(parse_i_string(s, i),
           one_of(ok(parse_ident(s, parse_i_string(s, i).i)), NoMatch(i)))

\* parse_optional_variant_ident: Some(name) as Ok(name), None as a no match.
parse_optional_variant_ident(s, i) ==
    one_of(parse_i_string(s, i), one_of(ok(parse_ident(s, i)), NoMatch(i)))

\* parse_bit_sequence
parse_bit_sequence(s, i) ==
    LET start == offset(s, i)
        j == skip_tokens_while(s, i + 1, {"0", "1"})
        seq == [k \in 1..(j - i - 1) |-> s[i + 1 + k] = "1"]
    IN  IF ~token(s, i, "<") THEN NoMatch(i)
        ELSE IF ~token(s, j, ">")
        THEN Err(between(ExpectedClosingBracketToMatch(start),
                         offset(s, j), offset(s, j) + 1), j)
        ELSE Ok(seq, j + 1)

\* Result::map(Value::bool), map(Value::char), map(Value::string),
\* map(Value::primitive), map(|v| v.into()), map(Value::bit_sequence)
map_bool(r) == IF r.k = "Ok" THEN Ok(Value_bool(r.v), r.i) ELSE r

map_char(r) == IF r.k = "Ok" THEN Ok(Value_char(r.v), r.i) ELSE r

map_string(r) == IF r.k = "Ok" THEN Ok(Value_string(r.v), r.i) ELSE r

map_primitive(r) == IF r.k = "Ok" THEN Ok(Value_primitive(r.v), r.i) ELSE r

map_composite(r) == IF r.k = "Ok" THEN Ok(Value_from_composite(r.v), r.i) ELSE r

map_bit_sequence(r) == IF r.k = "Ok" THEN Ok(Value_bit_sequence(r.v), r.i) ELSE r

map_variant(r) == IF r.k = "Ok" THEN Ok(Value_from_variant(r.v), r.i) ELSE r

RECURSIVE parse_value(_, _)
RECURSIVE parse_named_composite(_, _)
RECURSIVE parse_unnamed_composite(_, _)
RECURSIVE parse_variant(_, _)
RECURSIVE parse_field_name_and_value(_, _)
RECURSIVE sep_by_err(_, _, _, _, _)

\* parse_field_name: a string literal, else an ident.
parse_field_name(s, i) == one_of(parse_string(s, i), parse_ident(s, i))

\* parse_field_name_and_value once the name and the separator are parsed.
field_value(name, value) ==
    IF value.k = "Err" THEN value ELSE Ok(<<name.v, value.v>>, value.i)

\* parse_field_name_and_value once the name is parsed.
field_separator_and_value(s, name) ==
    LET sep == skip_spaced_separator(s, name.i, ":")
    IN  IF name.k = "Err" THEN name
        ELSE IF ~sep.is_sep
        THEN Err(at_one(MissingFieldSeparator(":"), offset(s, sep.i)), sep.i)
        ELSE field_value(name, parse_value(s, sep.i))

parse_field_name_and_value(s, i) == field_separator_and_value(s, parse_field_name(s, i))

\* SepByErr::next once the item is parsed, and the collect: an error ends
\* it with the cursor put back to last_good_pos.
sep_by_err_item(s, fields, acc, last_good_pos, item) ==
    IF item.k = "Err" THEN Err(item.e, last_good_pos)
    ELSE sep_by_err(s, item.i, fields, TRUE, Append(acc, item.v))

\* Tokens::sep_by_err(parser, |t| skip_spaced_separator(t, ','))
\* collected into a Result: the items so far are in acc; fields says
\* whether the items are fields (parse_field_name_and_value) or values.
sep_by_err(s, i, fields, needs_separator, acc) ==
    LET last_good_pos == i
        sep == skip_spaced_separator(s, i, ",")
        i1 == IF needs_separator THEN sep.i ELSE i
    IN  IF needs_separator /\ ~sep.is_sep THEN Ok(acc, last_good_pos)
        ELSE sep_by_err_item(s, fields, acc, last_good_pos,
                 IF fields THEN parse_field_name_and_value(s, i1) ELSE parse_value(s, i1))

\* The closing delimiter, with the error of a missing one put at the
\* opening delimiter.
composite_closer_error_at_opener(s, closer, start, named, vals) ==
    LET i2 == skip_whitespace(s, vals.i)
    IN  IF vals.k = "Err" THEN vals
        ELSE IF ~token(s, i2, closer)
        THEN Err(at_one(ExpectedCloserToMatch(closer, start), start), i2)
        ELSE Ok(IF named THEN Composite_Named(vals.v) ELSE Composite_Unnamed(vals.v), i2 + 1)

\* The closing delimiter, with the whitespace after it skipped as well.
composite_closer_skips_after(s, closer, start, named, vals) ==
    LET i2 == skip_whitespace(s, vals.i)
    IN  IF vals.k = "Err" THEN vals
        ELSE IF ~token(s, i2, closer)
        THEN Err(at_one(ExpectedCloserToMatch(closer, start), offset(s, i2)), i2)
        ELSE Ok(IF named THEN Composite_Named(vals.v) ELSE Composite_Unnamed(vals.v),
                skip_whitespace(s, i2 + 1))

\* parse_named_composite and parse_unnamed_composite once the items are
\* parsed: the closing delimiter.
composite_closer(s, closer, start, named, vals) ==
    LET i2 == skip_whitespace(s, vals.i)
    IN  IF vals.k = "Err" THEN vals
        ELSE IF ~token(s, i2, closer)
        THEN Err(at_one(ExpectedCloserToMatch(closer, start), offset(s, i2)), i2)
        ELSE Ok(IF named THEN Composite_Named(vals.v) ELSE Composite_Unnamed(vals.v), i2 + 1)

parse_named_composite(s, i) ==
    LET start == offset(s, i)
        i1 == skip_whitespace(s, i + 1)
    IN  IF ~token(s, i, "{") THEN NoMatch(i)
        ELSE IF token(s, i1, "}") THEN Ok(Composite_Named(<<>>), i1 + 1)
        ELSE composite_closer(s, "}", start, TRUE, sep_by_err(s, i1, TRUE, FALSE, <<>>))

parse_unnamed_composite(s, i) ==
    LET start == offset(s, i)
        i1 == skip_whitespace(s, i + 1)
    IN  IF ~token(s, i, "(") THEN NoMatch(i)
        ELSE IF token(s, i1, ")") THEN Ok(Composite_Unnamed(<<>>), i1 + 1)
        ELSE composite_closer(s, ")", start, FALSE, sep_by_err(s, i1, FALSE, FALSE, <<>>))

\* parse_variant once the composite is parsed.
variant_composite(ident, i1, composite) ==
    IF composite.k = "Ok" THEN Ok(Variant(ident.v, composite.v), composite.i)
    ELSE IF composite.k = "Err" THEN composite
    ELSE NoMatch(i1)

\* parse_variant once the name is parsed.
variant_after_ident(s, ident) ==
    LET i1 == skip_whitespace(s, ident.i)
    IN  IF ident.k = "None" THEN NoMatch(ident.i)
        ELSE variant_composite(ident, i1,
                 one_of(parse_named_composite(s, i1), parse_unnamed_composite(s, i1)))

parse_variant(s, i) == variant_after_ident(s, parse_optional_variant_ident(s, i))

\* The match of parse_value on what one_of! yields.
value_or_expected(s, i, r) ==
    IF r.k = "None" THEN Err(new_at(ExpectedValue, offset(s, i)), i) ELSE r

parse_value(s, i) ==
    value_or_expected(s, i,
        one_of(map_bool(parse_bool(s, i)),
        one_of(map_char(parse_char(s, i)),
        one_of(map_string(parse_string(s, i)),
        one_of(map_primitive(parse_number(s, i)),
        one_of(map_composite(parse_named_composite(s, i)),
        one_of(map_composite(parse_unnamed_composite(s, i)),
        one_of(map_bit_sequence(parse_bit_sequence(s, i)),
               map_variant(parse_variant(s, i))))))))))

\* from_str: the result (Ok with v, or Err with e) and the remaining text.
from_str(s) ==
    LET r == parse_value(s, 0)
    IN  [res |-> IF r.k = "Ok" THEN [k |-> "Ok", v |-> r.v] ELSE [k |-> "Err", e |-> r.e],
         remaining |-> remaining(s, r.i)]

(***************************************************************************)
(* The formatter (to_string.rs).  A fmt writes to the buffer f and yields  *)
(* fmt::Result with the buffer: ok, or not ok (fmt::Error).                *)
(***************************************************************************)

FmtOk(f) == [ok |-> TRUE, f |-> f]

FmtError(f) == [ok |-> FALSE, f |-> f]

\* is_ident
is_ident(s) ==
    \A idx \in 1..Len(s) :
        ~((idx = 1 /\ ~is_alphabetic(s[idx])) \/ ~is_alphanumeric(s[idx]) \/ s[idx] # "_")

\* One character of a char or string literal: escaped, or as it is.
fmt_escaped(c) ==
    LET escaped == to_escape_code(c)
    IN  IF escaped # None THEN <<"\\", escaped.some>> ELSE <<c>>

RECURSIVE fmt_chars(_, _)
\* The loop of fmt_string over s[k..].
fmt_chars(s, k) ==
    IF k > Len(s) THEN <<>> ELSE fmt_escaped(s[k]) \o fmt_chars(s, k + 1)

fmt_string(s, f) == FmtOk(f \o <<"\"">> \o fmt_chars(s, 1) \o <<"\"">>)

fmt_char(c, f) == FmtOk(f \o <<"'">> \o fmt_escaped(c) \o <<"'">>)

fmt_bitsequence(b, f) ==
    FmtOk(f \o <<"<">> \o [k \in 1..Len(b) |-> IF b[k] THEN "1" ELSE "0"] \o <<">">>)

\* Display for Primitive
fmt_primitive(p, f) ==
    CASE p.t = "Bool" /\ p.b -> FmtOk(f \o <<"t", "r", "u", "e">>)
      [] p.t = "Bool" /\ ~p.b -> FmtOk(f \o <<"f", "a", "l", "s", "e">>)
      [] p.t = "Char" -> fmt_char(p.c, f)
      [] p.t = "I128" -> FmtOk(f \o (IF p.neg THEN <<"-">> ELSE <<>>) \o fmt_u128(p.n))
      [] p.t = "U128" -> FmtOk(f \o fmt_u128(p.n))
      [] p.t = "String" -> fmt_string(p.s, f)
      [] p.t \in {"U256", "I256"} -> FmtError(f)

RECURSIVE fmt_value(_, _)
RECURSIVE fmt_named_vals(_, _, _)
RECURSIVE fmt_unnamed_vals(_, _, _)

\* A field name: as it is when is_ident, else as a string literal.
fmt_field_name(name, f) == IF is_ident(name) THEN FmtOk(f \o name) ELSE fmt_string(name, f)

\* The loop of Composite::Named over vals[idx..] (idx counts from 1 here),
\* r being the outcome of what was written before: an error ends it.
fmt_named_vals(vals, idx, r) ==
    IF ~r.ok \/ idx > Len(vals) THEN r
    ELSE fmt_named_vals(vals, idx + 1,
             fmt_value(vals[idx][2],
                 fmt_field_name(vals[idx][1],
                     IF idx # 1 THEN r.f \o <<",", " ">> ELSE r.f).f \o <<":", " ">>))

\* fmt_unnamed_vals with the outcome of val.fmt(f) dropped (no `?`).
fmt_unnamed_vals_unchecked(vals, idx, r) ==
    IF idx > Len(vals) THEN FmtOk(r.f)
    ELSE fmt_unnamed_vals(vals, idx + 1,
             fmt_value(vals[idx], IF idx # 1 THEN r.f \o <<",", " ">> ELSE r.f))

\* The loop of Composite::Unnamed over vals[idx..].
fmt_unnamed_vals(vals, idx, r) ==
    IF ~r.ok \/ idx > Len(vals) THEN r
    ELSE fmt_unnamed_vals(vals, idx + 1,
             fmt_value(vals[idx], IF idx # 1 THEN r.f \o <<",", " ">> ELSE r.f))

\* The end of a composite: the closing delimiter, unless a value failed.
fmt_close(body, closer) == IF ~body.ok THEN body ELSE FmtOk(body.f \o closer)

\* Display for Composite
fmt_composite(c, f) ==
    IF c.t = "Named"
    THEN fmt_close(fmt_named_vals(c.vals, 1, FmtOk(f \o <<"{", " ">>)), <<" ", "}">>)
    ELSE fmt_close(fmt_unnamed_vals(c.vals, 1, FmtOk(f \o <<"(">>)), <<")">>)

\* Display for Variant
fmt_variant(v, f) ==
    LET name == IF is_ident(v.name) THEN FmtOk(f \o v.name)
                ELSE fmt_string(v.name, f \o <<"v">>)
    IN  fmt_composite(v.values, name.f)

\* Display for ValueDef
fmt_valuedef(d, f) ==
    CASE d.t = "Composite" -> fmt_composite(d.c, f)
      [] d.t = "Variant" -> fmt_variant(d.v, f)
      [] d.t = "BitSequence" -> fmt_bitsequence(d.bits, f)
      [] d.t = "Primitive" -> fmt_primitive(d.p, f)

\* Display for Value
fmt_value(v, f) == fmt_valuedef(v.value, f)

\* Formatting a value to a fresh text: ok with the text, or not ok.
to_string(v) ==
    LET r == fmt_value(v, <<>>)
    IN  IF r.ok THEN [ok |-> TRUE, out |-> r.f] ELSE [ok |-> FALSE]

(***************************************************************************)
(* The inputs: the texts given to from_str and the values formatted.       *)
(***************************************************************************)

\* The longest text over NumberAlphabet.
MaxNumLen == 4

\* The longest text over LiteralAlphabet and over StructAlphabet.
MaxTextLen == 3

\* The most whitespace characters inserted into a text of SeedTexts.
MaxWs == 1

\* The most fields of a generated composite.
MaxFields == 2

RECURSIVE SeqsUpTo(_, _)
\* The sequences over A of at most n elements.
SeqsUpTo(A, n) ==
    IF n = 0 THEN {<<>>}
    ELSE LET S == SeqsUpTo(A, n - 1)
         IN  S \cup {Append(t, c) : t \in {x \in S : Len(x) = n - 1}, c \in A}

\* The text s with the character c inserted after its first p characters.
Insert(s, p, c) == SubSeq(s, 1, p) \o <<c>> \o SubSeq(s, p + 1, Len(s))

RECURSIVE Spaced(_, _)
\* The texts of S with at most n whitespace characters inserted anywhere.
Spaced(S, n) ==
    IF n = 0 THEN S
    ELSE LET P == Spaced(S, n - 1)
         IN  P \cup UNION {{Insert(t, p, w) : p \in 0..Len(t), w \in {" ", "\n"}} : t \in P}

\* The prefixes of the texts of S: truncated input.
Prefixes(S) == UNION {{SubSeq(t, 1, n) : n \in 0..Len(t)} : t \in S}

NumberAlphabet == {"+", "-", "0", "1", "_", "a"}

LiteralAlphabet == {"'", "\"", "\\", "n", "p", "v", "é", "("}

StructAlphabet == {"(", ")", "{", "}", "<", ">", ",", ":", " ", "1", "-", "a"}

\* Numbers around the ends of the range of u128 and of i128.
LongNumberTexts ==
    { <<"3", "4", "0", "2", "8", "2", "3", "6", "6", "9", "2", "0", "9", "3", "8", "4",
        "6", "3", "4", "6", "3", "3", "7", "4", "6", "0", "7", "4", "3", "1", "7", "6",
        "8", "2", "1", "1", "4", "5", "5">>,
      <<"+", "3", "4", "0", "2", "8", "2", "3", "6", "6", "9", "2", "0", "9", "3", "8",
        "4", "6", "3", "4", "6", "3", "3", "7", "4", "6", "0", "7", "4", "3", "1", "7",
        "6", "8", "2", "1", "1", "4", "5", "5">>,
      <<"3", "4", "0", "2", "8", "2", "3", "6", "6", "9", "2", "0", "9", "3", "8", "4",
        "6", "3", "4", "6", "3", "3", "7", "4", "6", "0", "7", "4", "3", "1", "7", "6",
        "8", "2", "1", "1", "4", "5", "6">>,
      <<"+", "3", "4", "0", "2", "8", "2", "3", "6", "6", "9", "2", "0", "9", "3", "8",
        "4", "6", "3", "4", "6", "3", "3", "7", "4", "6", "0", "7", "4", "3", "1", "7",
        "6", "8", "2", "1", "1", "4", "5", "6">>,
      <<"-", "1", "7", "0", "1", "4", "1", "1", "8", "3", "4", "6", "0", "4", "6", "9",
        "2", "3", "1", "7", "3", "1", "6", "8", "7", "3", "0", "3", "7", "1", "5", "8",
        "8", "4", "1", "0", "5", "7", "2", "8">>,
      <<"-", "1", "7", "0", "1", "4", "1", "1", "8", "3", "4", "6", "0", "4", "6", "9",
        "2", "3", "1", "7", "3", "1", "6", "8", "7", "3", "0", "3", "7", "1", "5", "8",
        "8", "4", "1", "0", "5", "7", "2", "9">>,
      <<"-", "3", "4", "0", "2", "8", "2", "3", "6", "6", "9", "2", "0", "9", "3", "8",
        "4", "6", "3", "4", "6", "3", "3", "7", "4", "6", "0", "7", "4", "3", "1", "7",
        "6", "8", "2", "1", "1", "4", "5", "5">>,
      <<"0", "3", "4", "0", "2", "8", "2", "3", "6", "6", "9", "2", "0", "9", "3", "8",
        "4", "6", "3", "4", "6", "3", "3", "7", "4", "6", "0", "7", "4", "3", "1", "7",
        "6", "8", "2", "1", "1", "4", "5", "5">>,
      <<"3", "4", "0", "2", "8", "2", "3", "6", "6", "9", "2", "0", "9", "3", "8", "4",
        "6", "3", "4", "6", "3", "3", "7", "4", "6", "0", "7", "4", "3", "1", "7", "6",
        "8", "2", "1", "1", "4", "5", "5", "0">>,
      <<"3", "_", "4", "0", "2", "8", "2", "3", "6", "6", "9", "2", "0", "9", "3", "8",
        "4", "6", "3", "4", "6", "3", "3", "7", "4", "6", "0", "7", "4", "3", "1", "7",
        "6", "8", "2", "1", "1", "4", "5", "5">>,
      <<"-", "1", "_", "7", "0", "1", "4", "1", "1", "8", "3", "4", "6", "0", "4", "6",
        "9", "2", "3", "1", "7", "3", "1", "6", "8", "7", "3", "0", "3", "7", "1", "5",
        "8", "8", "4", "1", "0", "5", "7", "2", "9", "_">>,
      <<"0", "_", "0", "3", "4", "0", "2", "8", "2", "3", "6", "6", "9", "2", "0", "9",
        "3", "8", "4", "6", "3", "4", "6", "3", "3", "7", "4", "6", "0", "7", "4", "3",
        "1", "7", "6", "8", "2", "1", "1", "4", "5", "6">>,
      <<"1", "7", "0", "1", "4", "1", "1", "8", "3", "4", "6", "0", "4", "6", "9", "2",
        "3", "1", "7", "3", "1", "6", "8", "7", "3", "0", "3", "7", "1", "5", "8", "8",
        "4", "1", "0", "5", "7", "2", "9">> }

\* Well-formed composites, variants and bit sequences.
SeedTexts ==
    { <<"(", ")">>,
      <<"{", "}">>,
      <<"<", ">">>,
      <<"<", "0", "1", ">">>,
      <<"(", "1", ",", "-", "1", ")">>,
      <<"{", "a", ":", "1", "}">>,
      <<"{", "a", ":", "1", ",", "\"", "b", "\"", ":", "é", "(", ")", "}">>,
      <<"F", "(", "1", ")">>,
      <<"v", "\"", "a", " ", "b", "\"", "{", "a", ":", "1", "}">>,
      <<"F", "{", "a", ":", "(", "1", ")", ",", "b", "_", "1", ":", "<", "0", ">", "}">>,
      <<"(", "t", "r", "u", "e", ",", "{", "a", ":", "f", "a", "l", "s", "e", "}", ")">>,
      <<"(", " ", " ", "t", "r", "u", "e", ",", " ", "1", "2", "3", "4", " ", ",",
        "\t", "\n", "\t", " ", "\"", "H", "e", "l", "l", "o", "!", "\"", " ", ")">>,
      <<"v", "\"", "v", "a", "r", "i", "a", "n", "t", " ", "n", "a", "m", "e", "\"",
        " ", "{", " ", " ", "}">> }

\* The inputs of the tests of from_string.rs, and malformed inputs like them.
TestTexts ==
    { <<"t", "r", "u", "e">>,
      <<"f", "a", "l", "s", "e">>,
      <<"1", "2", "3">>,
      <<"1", "_", "2", "3", "4", "_", "5", "6">>,
      <<"+", "1", "_", "2", "3", "4", "_", "5", "6">>,
      <<"-", "1", "2", "3", "_", "4">>,
      <<"-", "a", "b", "c">>,
      <<"'", "a", "'">>,
      <<"'", "é", "'">>,
      <<"'", "\\", "n", "'">>,
      <<"'", "\\", "t", "'">>,
      <<"'", "\\", "\"", "'">>,
      <<"'", "\\", "'", "'">>,
      <<"'", "\\", "r", "'">>,
      <<"'", "\\", "\\", "'">>,
      <<"'", "\\", "0", "'">>,
      <<"'", "a">>,
      <<"\"", "\\", "n", " ", "\\", "r", " ", "\\", "t", " ", "\\", "0", " ", "\\",
        "\"", "\"">>,
      <<"\"", "H", "e", "l", "l", "o", "\\", "\\", " ", "t", "h", "e", "r", "e", "\"">>,
      <<"\"", "H", "e", "l", "l", "o", "\\", "p", " ", "t", "h", "e", "r", "e", "\"">>,
      <<"\"", "H", "i">>,
      <<"'", "\\", "p", "'">>,
      <<"F", "o", "o", "(", ")">>,
      <<"F", "o", "o", "{", "}">>,
      <<"F", "o", "o", "(", " ", "\t", ")">>,
      <<"<", "0", "1", "1", "0", "1", "0", "1", "1", "0", "1", "0", "1", "1", "0", "1",
        ">">>,
      <<"<", "0", "1">>,
      <<"v", "\"", "a", "\\", "p", "\"", "(", ")">>,
      <<"{", "\"", "a", "\\", "p", "\"", ":", "1", "}">>,
      <<"{", "\"", "a", ":", "1", "}">>,
      <<"F", "o", "o">>,
      <<"(", "1", ",", ")">>,
      <<"(", "-", ")">>,
      <<"{", "a", ":", "+", "}">>,
      <<"(", "é", ",", " ", "-", "a", ")">>,
      <<"F", " ", "(", "+", "_", "1", ")">>,
      <<"{", " ", ":", " ", "t", "r", "u", "e", " ", "}">>,
      <<"t", "r", "u", "e", "x", "(", ")">>,
      <<"(", "\n", "\n", "\t", "\t", "\n", ")">>,
      <<"F", "o", "o", "{", " ", " ", "}">>,
      <<"\"", "é", "\\", "p", "\"">>,
      <<"'", "\\", "p", "'">>,
      <<"v", "(", ")">>,
      <<"v", "a", "_", "1", " ", "{", "}", " ", "x">> }

Texts ==
    SeqsUpTo(NumberAlphabet, MaxNumLen) \cup SeqsUpTo(LiteralAlphabet, MaxTextLen)
        \cup SeqsUpTo(StructAlphabet, MaxTextLen) \cup LongNumberTexts
        \cup Spaced(SeedTexts, MaxWs) \cup Prefixes(SeedTexts \cup TestTexts)

\* The context of the values given to the formatter: any type but the unit.
Context == "T"

V(def) == Value(Context, def)

TopPrimitives ==
    { Primitive_Bool(TRUE), Primitive_Bool(FALSE),
      Primitive_Char("a"), Primitive_Char("\n"), Primitive_Char("'"),
      Primitive_Char("é"), Primitive_Char(NUL), Primitive_Char("\\"),
      Primitive_String(<<>>), Primitive_String(<<"a">>),
      Primitive_String(<<"\"", "\\", "\n">>), Primitive_String(<<"a", " ", "é", "\t">>),
      Primitive_U128(U(0)), Primitive_U128(U(5)), Primitive_U128(U128_MAX),
      Primitive_I128(TRUE, U(5)), Primitive_I128(TRUE, I128_MIN_MAG),
      Primitive_I128(FALSE, U(5)), Primitive_I128(FALSE, U(0)),
      Primitive_U256(U(1)), Primitive_I256(U(1)) }

BitSequences == {<<>>, <<TRUE>>, <<FALSE, TRUE, TRUE>>}

\* The values inside the generated composites.
Children ==
    { V(ValueDef_Primitive(Primitive_Bool(TRUE))),
      V(ValueDef_Primitive(Primitive_I128(TRUE, U(5)))),
      V(ValueDef_Primitive(Primitive_U256(U(1)))),
      V(ValueDef_Composite(Composite_Unnamed(<<V(ValueDef_Primitive(Primitive_I256(U(1))))>>))),
      V(ValueDef_Variant(Variant(<<"F">>,
          Composite_Named(<<<<<<"a">>, V(ValueDef_Primitive(Primitive_String(<<"b">>)))>>>>)))) }

FieldNames == {<<>>, <<"a">>, <<"b", "_", "1">>}

VariantNames == {<<>>, <<"a">>, <<"b", "_", "1">>, <<"_">>, <<"1", "a">>, <<"a", " ", "b">>}

\* The composites of at most n fields.
Composites(n) ==
    {Composite_Unnamed(vals) : vals \in SeqsUpTo(Children, n)}
        \cup {Composite_Named(vals) : vals \in SeqsUpTo(FieldNames \X Children, n)}

Values ==
    {V(ValueDef_Primitive(p)) : p \in TopPrimitives}
        \cup {V(ValueDef_BitSequence(b)) : b \in BitSequences}
        \cup {V(ValueDef_Composite(c)) : c \in Composites(MaxFields)}
        \cup {V(ValueDef_Variant(Variant(name, c))) :
                 name \in VariantNames, c \in Composites(MaxFields - 1)}

(***************************************************************************)
(* The state machine: a value is formatted (to_string), a text is parsed   *)
(* (from_str), and a parsed value is formatted again.                      *)
(***************************************************************************)

\* A value is given: it is formatted first.
InitValue ==
    /\ pc = "value"
    /\ val \in Values
    /\ text = <<>>

\* A text is given: it is parsed.
InitText ==
    /\ pc = "text"
    /\ val = None
    /\ text \in Texts

Init ==
    /\ InitValue \/ InitText
    /\ fmt = None
    /\ res = None
    /\ rest = <<>>
    /\ fmt2 = None
    /\ scan = None

\* val.to_string(): the text of val, or the failure of its Display.
ToStringValue ==
    /\ pc = "value"
    /\ fmt' = to_string(val)
    /\ pc' = IF fmt'.ok THEN "text" ELSE "fmt_failed"
    /\ text' = IF fmt'.ok THEN fmt'.out ELSE text
    /\ UNCHANGED <<val, res, rest, fmt2, scan>>

\* from_str(&text)
FromStr ==
    /\ pc = "text"
    /\ LET r == from_str(text)
       IN  /\ res' = r.res
           /\ rest' = r.remaining
    /\ pc' = "parsed"
    /\ UNCHANGED <<val, fmt, text, fmt2, scan>>

\* new_val.to_string() of the value parsed.
ToStringParsed ==
    /\ pc = "parsed"
    /\ res.k = "Ok"
    /\ fmt2' = to_string(res.v)
    /\ pc' = "reformatted"
    /\ UNCHANGED <<val, fmt, text, res, rest, scan>>

Next == ToStringValue \/ FromStr \/ ToStringParsed

Spec == Init /\ [][Next]_vars

(***************************************************************************)
(* The loops of the parser, one iteration at a time.  A scanner is given   *)
(* the text that remains when its loop starts; scan is the kind of the     *)
(* loop, the cursor i, the flag that the loop keeps (seen_n of the digits, *)
(* next_is_escaped of the string, whether a separator is needed before the *)
(* next element of a list), and whether the loop has stopped.              *)
(***************************************************************************)

\* The longest text over ScanAlphabet given to a scanner.
MaxScanLen == 3

ScanAlphabet == {" ", "a", "1", "_", "\"", "\\", ",", ":"}

\* The suffixes of the texts of S: what remains when a loop starts.
Suffixes(S) == UNION {{remaining(t, n) : n \in 0..Len(t)} : t \in S}

ScanTexts == SeqsUpTo(ScanAlphabet, MaxScanLen) \cup Suffixes(SeedTexts \cup TestTexts)

\* The loops over a class of characters, and the class of each.
ClassOf(kind) ==
    CASE kind = "whitespace" -> Whitespace
      [] kind = "ident_start" -> Alphabetic
      [] kind = "ident_rest" -> Alphanumeric \cup {"_"}
      [] kind = "bits" -> {"0", "1"}

ClassKinds == {"whitespace", "ident_start", "ident_rest", "bits"}

ScanKinds == ClassKinds \cup {"digits", "string", "fields", "values"}

Scan(kind, i, flag, done) == [kind |-> kind, i |-> i, flag |-> flag, done |-> done]

\* One iteration of tokens_while and of skip_tokens_while over a class: the
\* next character is consumed when it is of the class, else the loop stops.
tokens_while_iteration(s, i, class) ==
    IF i < Len(s) /\ s[i + 1] \in class THEN [i |-> i + 1, flag |-> FALSE, done |-> FALSE]
    ELSE [i |-> i, flag |-> FALSE, done |-> TRUE]

\* One iteration of tokens_while in parse_number.
number_iteration(s, i, seen_n) ==
    IF i >= Len(s) THEN [i |-> i, flag |-> seen_n, done |-> TRUE]
    ELSE LET tk == number_token(s[i + 1], seen_n)
         IN  [i |-> IF tk.take THEN i + 1 ELSE i, flag |-> tk.seen_n, done |-> ~tk.take]

\* An iteration of the loop of parse_string that reads a character other
\* than a backslash or an escape code without consuming it.
string_iteration_peeks(s, j, next_is_escaped) ==
    IF j >= Len(s) THEN [i |-> j, flag |-> next_is_escaped, done |-> TRUE]
    ELSE IF s[j + 1] = "\\" /\ ~next_is_escaped
    THEN [i |-> j + 1, flag |-> TRUE, done |-> FALSE]
    ELSE IF next_is_escaped
    THEN [i |-> j + 1, flag |-> FALSE, done |-> from_escape_code(s[j + 1]) = None]
    ELSE [i |-> IF s[j + 1] = "\"" THEN j + 1 ELSE j, flag |-> FALSE,
          done |-> s[j + 1] = "\""]

\* One iteration of the loop of parse_string: t.next() consumes a character,
\* or there is none and the loop returns; the loop returns as well on an
\* escape code that is none and on the closing quote.
string_iteration(s, j, next_is_escaped) ==
    IF j >= Len(s) THEN [i |-> j, flag |-> next_is_escaped, done |-> TRUE]
    ELSE IF s[j + 1] = "\\" /\ ~next_is_escaped
    THEN [i |-> j + 1, flag |-> TRUE, done |-> FALSE]
    ELSE IF next_is_escaped
    THEN [i |-> j + 1, flag |-> FALSE, done |-> from_escape_code(s[j + 1]) = None]
    ELSE [i |-> j + 1, flag |-> FALSE, done |-> s[j + 1] = "\""]

\* SepByErr::next once the item is parsed: an error ends the list with the
\* cursor put back, a parsed item leaves the cursor after it.
sep_by_err_next(last_good_pos, item) ==
    IF item.k = "Err" THEN [i |-> last_good_pos, flag |-> TRUE, done |-> TRUE]
    ELSE [i |-> item.i, flag |-> TRUE, done |-> FALSE]

\* The item that sep_by_err is given at each place of each text: a field with
\* its name, or a value.
ItemAt ==
    [t \in ScanTexts |->
        [i \in 0..Len(t) |->
            [fields \in BOOLEAN |->
                IF fields THEN parse_field_name_and_value(t, i)
                ELSE parse_value(t, i)]]]

\* One iteration of sep_by_err: the separator, when one is needed, and the
\* item; the list ends when the separator is missing.
sep_by_err_iteration(s, i, fields, needs_separator) ==
    LET sep == skip_spaced_separator(s, i, ",")
        i1 == IF needs_separator THEN sep.i ELSE i
    IN  IF needs_separator /\ ~sep.is_sep THEN [i |-> i, flag |-> TRUE, done |-> TRUE]
        ELSE sep_by_err_next(i, ItemAt[s][i1][fields])

\* The loop after the iteration it.
Iterated(it) == Scan(scan.kind, it.i, it.flag, it.done)

\* No text has been given yet.
ScanInit ==
    /\ pc = "input"
    /\ text = <<>>
    /\ scan = None
    /\ val = None
    /\ fmt = None
    /\ res = None
    /\ rest = <<>>
    /\ fmt2 = None

\* A loop of the parser is entered on a text, its cursor at the start.
ScanBegin ==
    /\ pc = "input"
    /\ pc' = "scan"
    /\ text' \in ScanTexts
    /\ scan' \in {Scan(kind, 0, FALSE, FALSE) : kind \in ScanKinds}
    /\ UNCHANGED <<val, fmt, res, rest, fmt2>>

\* skip_whitespace, the two loops of parse_ident, the bits of parse_bit_sequence
ScanTokensWhile ==
    /\ pc = "scan"
    /\ ~scan.done
    /\ scan.kind \in ClassKinds
    /\ scan' = Iterated(tokens_while_iteration(text, scan.i, ClassOf(scan.kind)))
    /\ UNCHANGED <<pc, val, fmt, text, res, rest, fmt2>>

\* the digits of parse_number
ScanDigits ==
    /\ pc = "scan"
    /\ ~scan.done
    /\ scan.kind = "digits"
    /\ scan' = Iterated(number_iteration(text, scan.i, scan.flag))
    /\ UNCHANGED <<pc, val, fmt, text, res, rest, fmt2>>

\* the loop of parse_string
ScanString ==
    /\ pc = "scan"
    /\ ~scan.done
    /\ scan.kind = "string"
    /\ scan' = Iterated(string_iteration(text, scan.i, scan.flag))
    /\ UNCHANGED <<pc, val, fmt, text, res, rest, fmt2>>

\* the elements of parse_named_composite and of parse_unnamed_composite
ScanList ==
    /\ pc = "scan"
    /\ ~scan.done
    /\ scan.kind \in {"fields", "values"}
    /\ scan' = Iterated(sep_by_err_iteration(text, scan.i, scan.kind = "fields", scan.flag))
    /\ UNCHANGED <<pc, val, fmt, text, res, rest, fmt2>>

ScanNext == ScanBegin \/ ScanTokensWhile \/ ScanDigits \/ ScanString \/ ScanList

\* The parser runs to its end: a loop that has not stopped goes on.
ScanSpec == ScanInit /\ [][ScanNext]_vars /\ WF_vars(ScanNext)

(***************************************************************************)
(* The properties.                                                         *)
(***************************************************************************)

RECURSIVE Has256(_)
\* Whether the value v holds a U256 or an I256 at any depth.
Has256(v) ==
    LET d == v.value
        inside(c) ==
            IF c.t = "Named" THEN \E k \in 1..Len(c.vals) : Has256(c.vals[k][2])
            ELSE \E k \in 1..Len(c.vals) : Has256(c.vals[k])
    IN  CASE d.t = "Primitive" -> d.p.t \in {"U256", "I256"}
          [] d.t = "BitSequence" -> FALSE
          [] d.t = "Composite" -> inside(d.c)
          [] d.t = "Variant" -> inside(d.v.values)

\* A value was given and formatted, and the text parsed.
RoundTripped == pc \in {"parsed", "reformatted"} /\ val # None

\* C1: for every value v without a 256-bit primitive, parsing the text of v
\* yields Ok(v with its context erased) and leaves no input.
C1_RoundTrip ==
    (RoundTripped /\ ~Has256(val)) =>
        /\ res = [k |-> "Ok", v |-> remove_context(val)]
        /\ rest = <<>>

\* C2: for every value v without a 256-bit primitive, formatting v, parsing
\* the text and formatting the parsed value all succeed, and the second text
\* is the first.
C2_IdempotentCanonicalForm ==
    (val # None /\ ~Has256(val)) =>
        /\ pc # "value" => fmt.ok
        /\ pc \in {"parsed", "reformatted"} => res.k = "Ok"
        /\ pc = "reformatted" => fmt2.ok /\ fmt2.out = fmt.out

\* Whether parse_ident accepts the whole of the name.
AcceptedInFull(name) ==
    LET r == parse_ident(name, 0)
    IN  r.k = "Ok" /\ r.i = Len(name)

\* Whether the text t continues with u after its first n characters.
ContinuesWith(t, n, u) == n + Len(u) <= Len(t) /\ SubSeq(t, n + 1, n + Len(u)) = u

\* C3: is_ident holds of exactly the names parse_ident accepts in full; the
\* name of a variant and of a field is written unquoted when it is such a
\* name, and as a string literal (after `v` for a variant) when it is not.
C3_QuotingFollowsParseIdent ==
    (pc = "text" /\ val # None) =>
        LET d == val.value
            variant_name == d.v.name
            field_name == d.c.vals[1][1]
        IN  /\ d.t = "Variant" =>
                /\ is_ident(variant_name) <=> AcceptedInFull(variant_name)
                /\ IF AcceptedInFull(variant_name)
                   THEN ContinuesWith(text, 0, variant_name)
                        /\ text[Len(variant_name) + 1] \in {"(", "{"}
                   ELSE ContinuesWith(text, 0, <<"v", "\"">>)
            /\ (d.t = "Composite" /\ d.c.t = "Named" /\ d.c.vals # <<>>) =>
                /\ is_ident(field_name) <=> AcceptedInFull(field_name)
                /\ IF AcceptedInFull(field_name)
                   THEN ContinuesWith(text, 2, field_name \o <<":", " ">>)
                   ELSE ContinuesWith(text, 2, <<"\"">>)

\* C7: formatting fails exactly when the value holds a U256 or an I256 at
\* any depth.
C7_FormatFailsIff256 ==
    (val # None /\ pc # "value") => (~fmt.ok <=> Has256(val))

\* A variant that holds a composite holding an I256 failed to format.
C7_Witness ==
    /\ pc = "fmt_failed"
    /\ val.value.t = "Variant"
    /\ val.value.v.values = Composite_Unnamed(<<V(ValueDef_Composite(
           Composite_Unnamed(<<V(ValueDef_Primitive(Primitive_I256(U(1))))>>)))>>)

\* A variant without a 256-bit primitive was formatted.
C7_WitnessOk ==
    /\ pc = "text"
    /\ val # None
    /\ val.value.t = "Variant"
    /\ fmt.ok

(***************************************************************************)
(* Numbers.                                                                *)
(***************************************************************************)

\* u128::MAX and the magnitude of i128::MIN in decimal.
U128MaxDigits ==
    <<"3", "4", "0", "2", "8", "2", "3", "6", "6", "9", "2", "0", "9", "3", "8", "4",
      "6", "3", "4", "6", "3", "3", "7", "4", "6", "0", "7", "4", "3", "1", "7", "6",
      "8", "2", "1", "1", "4", "5", "5">>

I128MinDigits ==
    <<"1", "7", "0", "1", "4", "1", "1", "8", "3", "4", "6", "0", "4", "6", "9", "2",
      "3", "1", "7", "3", "1", "6", "8", "7", "3", "0", "3", "7", "1", "5", "8", "8",
      "4", "1", "0", "5", "7", "2", "8">>

RECURSIVE StripZeros(_)
\* The decimal ds without its leading zeros; "0" when it is all zeros.
StripZeros(ds) ==
    IF Len(ds) > 1 /\ ds[1] = "0" THEN StripZeros(Tail(ds)) ELSE ds

RECURSIVE LexLeq(_, _)
\* a <= b for decimals of the same length.
LexLeq(a, b) ==
    IF a = <<>> THEN TRUE
    ELSE IF a[1] # b[1] THEN DigitVal(a[1]) < DigitVal(b[1])
    ELSE LexLeq(Tail(a), Tail(b))

\* a <= b for decimals without leading zeros.
DecimalLeq(a, b) == Len(a) < Len(b) \/ (Len(a) = Len(b) /\ LexLeq(a, b))

\* Whether t has a sign.
Signed(t) == t # <<>> /\ t[1] \in {"+", "-"}

\* Whether t is an optional sign, a digit, and then digits and underscores.
IsNumberText(t) ==
    LET body == IF Signed(t) THEN Tail(t) ELSE t
    IN  /\ body # <<>>
        /\ body[1] \in Digits
        /\ \A k \in 1..Len(body) : body[k] \in Digits \cup {"_"}

\* C4: a text made of an optional sign, a digit, and then digits and
\* underscores parses to U128(n) without a sign or after `+`, and to I128(-n)
\* after `-`, n being the decimal value of its digits; when n does not fit
\* the type the result is the error ParsingFailed from the offset of the
\* start of the text (its sign included) to the offset of its end.
C4_NumberParsing ==
    (pc = "parsed" /\ IsNumberText(text)) =>
        LET negative == text[1] = "-"
            n == StripZeros(SelectSeq(text, is_digit))
            p == res.v.value.p
        IN  IF DecimalLeq(n, IF negative THEN I128MinDigits ELSE U128MaxDigits)
            THEN /\ res.k = "Ok"
                 /\ rest = <<>>
                 /\ res.v.context = Unit
                 /\ res.v.value.t = "Primitive"
                 /\ p.t = IF negative THEN "I128" ELSE "U128"
                 /\ fmt_u128(p.n) = n
                 /\ negative => (p.neg <=> n # <<"0">>)
            ELSE /\ res.k = "Err"
                 /\ res.e = between(ParsingFailed(IF negative THEN "NegOverflow"
                                                  ELSE "PosOverflow"),
                                    0, Len(text))

\* A negative number with underscores that is one below i128::MIN was refused.
C4_Witness ==
    /\ pc = "parsed"
    /\ IsNumberText(text)
    /\ text[1] = "-"
    /\ \E k \in 1..Len(text) : text[k] = "_"
    /\ res.k = "Err"
    /\ res.e.start_loc = 0
    /\ res.e.end_loc = Some(Len(text))

\* i128::MIN was parsed.
C4_WitnessMin ==
    /\ pc = "parsed"
    /\ text = <<"-">> \o I128MinDigits
    /\ res = [k |-> "Ok", v |-> Value_primitive(Primitive_I128(TRUE, I128_MIN_MAG))]

\* A number with a `+` and underscores was parsed to a U128.
C4_WitnessPlus ==
    /\ pc = "parsed"
    /\ text = <<"+", "1", "_", "2", "3", "4", "_", "5", "6">>
    /\ res.k = "Ok"
    /\ res.v.value.p.t = "U128"
    /\ fmt_u128(res.v.value.p.n) = <<"1", "2", "3", "4", "5", "6">>

(***************************************************************************)
(* The dispatch of parse_value.                                            *)
(***************************************************************************)

\* The result of a parser without its cursor, in the form of res.
Outcome(r) ==
    IF r.k = "Ok" THEN [k |-> "Ok", v |-> r.v] ELSE [k |-> "Err", e |-> r.e]

\* The result of a value parsed at position i of the text: res at 0.
ResultAt(i) == IF i = 0 THEN res ELSE Outcome(parse_value(text, i))

\* The outcome of the rule whose leading token is at position i of s: a no
\* match when no rule's leading token is there.
LeadingRule(s, i) ==
    IF tokens(s, i, <<"t", "r", "u", "e">>) \/ tokens(s, i, <<"f", "a", "l", "s", "e">>)
    THEN map_bool(parse_bool(s, i))
    ELSE IF token(s, i, "'") THEN map_char(parse_char(s, i))
    ELSE IF token(s, i, "\"") THEN map_string(parse_string(s, i))
    ELSE IF i < Len(s) /\ s[i + 1] \in Digits \cup {"+", "-"}
    THEN map_primitive(parse_number(s, i))
    ELSE IF token(s, i, "{") THEN map_composite(parse_named_composite(s, i))
    ELSE IF token(s, i, "(") THEN map_composite(parse_unnamed_composite(s, i))
    ELSE IF token(s, i, "<") THEN map_bit_sequence(parse_bit_sequence(s, i))
    ELSE NoMatch(i)

\* What the rule with its leading token at i yields is the result there.
RuleDecidesAt(i) ==
    LET r == LeadingRule(text, i)
    IN  r.k # "None" => ResultAt(i) = Outcome(r)

\* The error of a string literal opened after the prefix `v` at i is the
\* result there.
PrefixedStringErrorAt(i) ==
    LET name == parse_string(text, i + 1)
    IN  (tokens(text, i, <<"v", "\"">>) /\ name.k = "Err")
            => ResultAt(i) = [k |-> "Err", e |-> name.e]

\* The error of a string literal opened as the first field name of the
\* named composite at i is the result there.
FieldNameStringErrorAt(i) ==
    LET name == parse_string(text, skip_whitespace(text, i + 1))
    IN  (token(text, i, "{") /\ name.k = "Err")
            => ResultAt(i) = [k |-> "Err", e |-> name.e]

\* C5: at every value position the result is that of the first rule in the
\* order bool, char, string, number, named composite, unnamed composite,
\* bit sequence, variant whose leading token is there; the error of a rule
\* whose leading token matched is the result of the parse, also when the
\* rule is a string literal opened after the prefix `v` or as a field name.
C5_HardErrorIsFinal ==
    pc = "parsed" =>
        \A i \in 0..(Len(text) - 1) :
            /\ RuleDecidesAt(i)
            /\ PrefixedStringErrorAt(i)
            /\ FieldNameStringErrorAt(i)

\* C5 without the prefix `v`: the part of the dispatch the code keeps.
C5_DispatchWithoutPrefix ==
    pc = "parsed" =>
        \A i \in 0..(Len(text) - 1) : RuleDecidesAt(i) /\ FieldNameStringErrorAt(i)

(***************************************************************************)
(* The remaining text.                                                     *)
(***************************************************************************)

\* The number of characters from_str consumed.
Consumed == Len(text) - Len(rest)

\* The first n characters of the text.
Prefix(n) == SubSeq(text, 1, n)

\* The closing delimiter of a composite.
Closer(c) == IF c.t = "Named" THEN "}" ELSE ")"

\* The opening delimiter of a composite.
Opener(c) == IF c.t = "Named" THEN "{" ELSE "("

\* Whether the first n characters of the text are the text of the value
\* definition d from its first to its last character.
SpansValue(d, n) ==
    CASE d.t = "Primitive" /\ d.p.t = "Bool" ->
             Prefix(n) = IF d.p.b THEN <<"t", "r", "u", "e">>
                         ELSE <<"f", "a", "l", "s", "e">>
      [] d.t = "Primitive" /\ d.p.t = "Char" ->
             n \in {3, 4} /\ text[1] = "'" /\ text[n] = "'"
      [] d.t = "Primitive" /\ d.p.t = "String" ->
             n >= 2 /\ text[1] = "\"" /\ text[n] = "\""
      [] d.t = "Primitive" /\ d.p.t \in {"U128", "I128"} ->
             /\ IsNumberText(Prefix(n))
             /\ d.p.t = "I128" <=> text[1] = "-"
             /\ rest # <<>> => rest[1] \notin Digits \cup {"_"}
      [] d.t = "BitSequence" ->
             n = Len(d.bits) + 2 /\ text[1] = "<" /\ text[n] = ">"
      [] d.t = "Composite" ->
             n >= 2 /\ text[1] = Opener(d.c) /\ text[n] = Closer(d.c)
      [] d.t = "Variant" ->
             /\ text[n] = Closer(d.v.values)
             /\ \/ ContinuesWith(text, 0, <<"v", "\"">>)
                \/ /\ AcceptedInFull(d.v.name)
                   /\ ContinuesWith(text, 0, d.v.name)
                   /\ text[Len(d.v.name) + 1] \notin Alphanumeric \cup {"_"}

\* C6: after a successful parse the text is the consumed prefix followed
\* by the remaining text; the consumed prefix is the text of the value from
\* its first to its last character, it does not end in whitespace, and alone
\* it parses to the same value with nothing remaining.  When every
\* alternative reported a no match, nothing is consumed.
C6_RemainingIsUnconsumedSuffix ==
    pc = "parsed" =>
        /\ res.k = "Ok" =>
            /\ Consumed \in 1..Len(text)
            /\ text = Prefix(Consumed) \o rest
            /\ text[Consumed] \notin Whitespace
            /\ SpansValue(res.v.value, Consumed)
            /\ from_str(Prefix(Consumed)) = [res |-> res, remaining |-> <<>>]
        /\ res = [k |-> "Err", e |-> new_at(ExpectedValue, 0)] => rest = text

\* A composite followed by whitespace was parsed and the whitespace remains.
C6_Witness ==
    /\ pc = "parsed"
    /\ res.k = "Ok"
    /\ res.v.value.t = "Composite"
    /\ rest # <<>>
    /\ rest[1] \in Whitespace

\* A variant was parsed whose name starts with `v`, the prefix of a string.
C6_WitnessVariant ==
    /\ pc = "parsed"
    /\ res.k = "Ok"
    /\ res.v.value.t = "Variant"
    /\ text[1] = "v"
    /\ text[2] # "\""

\* An ident without a composite: every alternative reported a no match.
C6_WitnessNoMatch ==
    /\ pc = "parsed"
    /\ text = <<"F", "o", "o">>
    /\ res = [k |-> "Err", e |-> new_at(ExpectedValue, 0)]
    /\ rest = text

(***************************************************************************)
(* A sign without a digit.                                                 *)
(***************************************************************************)

\* Whether position i of the text holds a sign that no digit follows.
SignWithoutDigitAt(i) ==
    /\ i < Len(text)
    /\ text[i + 1] \in {"+", "-"}
    /\ i + 1 < Len(text) => text[i + 2] \notin Digits

\* The error of a sign at position i that no digit follows.
ExpectedDigitAfter(i) ==
    [k |-> "Err", e |-> between(ExpectedDigit, offset(text, i) + 1, offset(text, i) + 2)]

\* C8: a value position that starts with `+` or `-` at offset s, with no
\* ASCII digit after it, fails with ExpectedDigit from s + 1 to s + 2; that
\* is the result of the parse when the position is the start of the text or
\* the first value of an unnamed composite at the start of the text.
C8_SignWithoutDigit ==
    pc = "parsed" =>
        /\ \A i \in 0..(Len(text) - 1) :
               SignWithoutDigitAt(i) =>
                   /\ ResultAt(i) = ExpectedDigitAfter(i)
                   /\ parse_number(text, i).k = "Err"
        /\ \A i \in 1..(Len(text) - 1) :
               (text[1] = "(" /\ i = skip_whitespace(text, 1) /\ SignWithoutDigitAt(i))
                   => res = ExpectedDigitAfter(i)

\* `-abc` was refused with ExpectedDigit from 1 to 2.
C8_Witness ==
    /\ pc = "parsed"
    /\ text = <<"-", "a", "b", "c">>
    /\ res = [k |-> "Err", e |-> between(ExpectedDigit, 1, 2)]

\* A sign at the end of the text, inside a composite, was refused.
C8_WitnessNested ==
    /\ pc = "parsed"
    /\ Len(text) >= 2
    /\ text[1] = "("
    /\ text[Len(text)] \in {"+", "-"}
    /\ res.k = "Err"
    /\ res.e.err = ExpectedDigit
    /\ res.e.start_loc = Len(text)

(***************************************************************************)
(* Underscores in numbers.                                                 *)
(***************************************************************************)

\* Whether a number was parsed at the start of the text.
NumberParsed ==
    /\ pc = "parsed"
    /\ res.k = "Ok"
    /\ res.v.value.t = "Primitive"
    /\ res.v.value.p.t \in {"U128", "I128"}

\* C10 as stated: every underscore consumed in a number comes right after a
\* digit, and an underscore that does not come right after a digit is the
\* first character of the remaining text.
C10_UnderscoreOnlyRightAfterDigit ==
    NumberParsed =>
        /\ \A k \in 1..Consumed :
               text[k] = "_" => (k > 1 /\ text[k - 1] \in Digits)
        /\ \A k \in 2..Len(text) :
               (text[k] = "_" /\ text[k - 1] \notin Digits
                    /\ \A j \in 1..(k - 1) : text[j] \in Digits \cup {"_", "+", "-"})
                   => Consumed < k

\* The number of characters of the sign of the text: 0 or 1.
SignLen == IF Signed(text) THEN 1 ELSE 0

\* C10, amended: the digit run of a number is its first digit and every
\* digit and underscore after it, consecutive underscores included, up to
\* the first other character; an underscore before the first digit is not
\* consumed: after a sign it is the first character of the remaining text
\* of the error ExpectedDigit, and at the start of the text nothing is
\* consumed.
C10_UnderscoreAfterFirstDigit ==
    (pc = "parsed" /\ Len(text) > SignLen) =>
        LET first == text[SignLen + 1]
        IN  /\ first \in Digits =>
                /\ Consumed = skip_tokens_while(text, SignLen, Digits \cup {"_"})
                /\ rest = SubSeq(text, Consumed + 1, Len(text))
                /\ res.k = "Ok" =>
                       fmt_u128(res.v.value.p.n)
                           = StripZeros(SelectSeq(Prefix(Consumed), is_digit))
            /\ (first = "_" /\ SignLen = 1) =>
                /\ res = [k |-> "Err", e |-> between(ExpectedDigit, 1, 2)]
                /\ rest = Tail(text)
            /\ (first = "_" /\ SignLen = 0) =>
                /\ res = [k |-> "Err", e |-> new_at(ExpectedValue, 0)]
                /\ rest = text

\* Two consecutive underscores inside a number were consumed with it.
C10_Witness ==
    /\ NumberParsed
    /\ text = <<"1", "_", "_", "0">>
    /\ rest = <<>>
    /\ fmt_u128(res.v.value.p.n) = <<"1", "0">>

\* An underscore after a sign was left unconsumed.
C10_WitnessLeading ==
    /\ pc = "parsed"
    /\ text = <<"-", "_", "1">>
    /\ rest = <<"_", "1">>

(***************************************************************************)
(* Whitespace inside composites and variants.                              *)
(***************************************************************************)

RECURSIVE LeftOf(_, _)
\* The last character of the first p of s that is not whitespace ("" if none).
LeftOf(s, p) ==
    IF p = 0 THEN ""
    ELSE IF s[p] \in Whitespace THEN LeftOf(s, p - 1)
    ELSE s[p]

RECURSIVE RightOf(_, _)
\* The first character of s after its first p that is not whitespace.
RightOf(s, p) ==
    IF p >= Len(s) THEN ""
    ELSE IF s[p + 1] \in Whitespace THEN RightOf(s, p + 1)
    ELSE s[p + 1]

\* Whether s has no character literal and no escape, so that its string
\* literals are the stretches between one `"` and the next.
PlainQuotes(s) == \A k \in 1..Len(s) : s[k] \notin {"'", "\\"}

\* Whether the position after the first p characters of s is inside a
\* string literal, for s with PlainQuotes.
InString(s, p) == Len(SelectSeq(SubSeq(s, 1, p), LAMBDA c : c = "\"")) % 2 = 1

\* Whether the position after the first p characters of s, a text that is
\* one value, is a token boundary inside a composite or a variant: after an
\* opening delimiter, before a closing delimiter, on either side of a `,` or
\* a `:`, or between the name of a variant and its composite.
IsBoundary(s, p) ==
    /\ ~InString(s, p)
    /\ \/ LeftOf(s, p) \in {"(", "{", ",", ":"}
       \/ RightOf(s, p) \in {")", "}", ",", ":"}
       \/ /\ RightOf(s, p) \in {"(", "{"}
          /\ LeftOf(s, p) \in Alphanumeric \cup {"_", "\""}

\* Whether s is the opening delimiter open, whitespace, and the closing
\* delimiter close.
IsEmptyForm(s, open, close) ==
    /\ Len(s) >= 2
    /\ s[1] = open
    /\ s[Len(s)] = close
    /\ \A k \in 2..(Len(s) - 1) : s[k] \in Whitespace

\* C9: a text that parses in full to a value parses to the same value with a
\* whitespace character inserted at any token boundary inside a composite or
\* a variant (so with any amount of whitespace there, by repetition); `(`
\* and `)` with only whitespace between them parse to the empty unnamed
\* composite, `{` and `}` to the empty named composite, and `<>` to the empty
\* bit sequence.
C9_WhitespaceAtBoundaries ==
    pc = "parsed" =>
        /\ (res.k = "Ok" /\ rest = <<>> /\ PlainQuotes(text)) =>
               \A p \in 0..Len(text) :
                   IsBoundary(text, p) =>
                       \A w \in Whitespace :
                           from_str(Insert(text, p, w)) = [res |-> res, remaining |-> <<>>]
        /\ IsEmptyForm(text, "(", ")") =>
               /\ res = [k |-> "Ok", v |-> Value_from_composite(Composite_Unnamed(<<>>))]
               /\ rest = <<>>
        /\ IsEmptyForm(text, "{", "}") =>
               /\ res = [k |-> "Ok", v |-> Value_from_composite(Composite_Named(<<>>))]
               /\ rest = <<>>
        /\ text = <<"<", ">">> =>
               /\ res = [k |-> "Ok", v |-> Value_bit_sequence(<<>>)]
               /\ rest = <<>>

\* A named variant with whitespace before a `,` and before a `:` was parsed
\* to the value of the text without that whitespace.
C9_Witness ==
    /\ pc = "parsed"
    /\ res.k = "Ok"
    /\ rest = <<>>
    /\ res.v.value.t = "Variant"
    /\ \E p \in 1..(Len(text) - 1) :
           /\ text[p] \in Whitespace
           /\ text[p + 1] \in {",", ":"}
           /\ ~InString(text, p)
           /\ from_str(SubSeq(text, 1, p - 1) \o SubSeq(text, p + 1, Len(text))).res = res

\* `(` and `)` with five whitespace characters between them were parsed.
C9_WitnessEmpty ==
    /\ pc = "parsed"
    /\ IsEmptyForm(text, "(", ")")
    /\ Len(text) = 7
    /\ res.k = "Ok"

(***************************************************************************)
(* A missing closing delimiter.                                            *)
(***************************************************************************)

\* Whether the error kind k is that of a missing closing delimiter.
IsMissingCloser(k) ==
    \/ Len(k) = 4 /\ k[1] = "Complex" /\ k[2] = "ExpectedCloserToMatch"
    \/ Len(k) = 3 /\ k[1] = "BitSequence" /\ k[2] = "ExpectedClosingBracketToMatch"

\* The offset of the opening delimiter that the error kind k carries.
OpenerOffset(k) == k[Len(k)]

\* The closing delimiter that the error kind k says is missing.
MissingCloser(k) == IF k[1] = "Complex" THEN k[3] ELSE ">"

\* The opening delimiter of the closing delimiter c.
OpenerOf(c) == IF c = "}" THEN "{" ELSE IF c = ")" THEN "(" ELSE "<"

\* Whether the character of the text at the byte offset b is c.
CharAtOffset(b, c) ==
    \E i \in 0..(Len(text) - 1) : offset(text, i) = b /\ text[i + 1] = c

\* C11 as stated: the error of a missing closing delimiter starts at the
\* offset of the matching opening delimiter.
C11_MissingCloserStartsAtOpener ==
    (pc = "parsed" /\ res.k = "Err" /\ IsMissingCloser(res.e.err)) =>
        res.e.start_loc = OpenerOffset(res.e.err)

\* The position of the opening delimiter of the composite of the value
\* definition d that the text holds: 0, or after the name of a variant.
CompositeStart(d) ==
    IF d.t = "Variant" THEN skip_whitespace(text, Len(d.v.name)) ELSE 0

\* The text without its last character.
Truncated == SubSeq(text, 1, Len(text) - 1)

\* Whether the text is a composite with a value in it, a variant named by
\* an ident with a value in it, or a bit sequence, parsed in full.
ClosedAtEnd ==
    /\ pc = "parsed"
    /\ res.k = "Ok"
    /\ rest = <<>>
    /\ LET d == res.v.value
       IN  \/ d.t = "BitSequence"
           \/ d.t = "Composite" /\ d.c.vals # <<>>
           \/ /\ d.t = "Variant"
              /\ d.v.values.vals # <<>>
              /\ ~ContinuesWith(text, 0, <<"v", "\"">>)

\* C11, amended: the error of a missing closing delimiter starts at the
\* offset where the delimiter was expected and ends one after it; the offset
\* of the matching opening delimiter, which is before the start, is carried
\* in the kind of the error.  In particular a text that is a composite, a
\* variant or a bit sequence, with its closing delimiter cut off, fails so
\* at the offset of its end.
C11_MissingCloserAtExpectedOffset ==
    /\ (pc = "parsed" /\ res.k = "Err" /\ IsMissingCloser(res.e.err)) =>
           /\ CharAtOffset(OpenerOffset(res.e.err), OpenerOf(MissingCloser(res.e.err)))
           /\ res.e.start_loc > OpenerOffset(res.e.err)
           /\ res.e.end_loc = Some(res.e.start_loc + 1)
           /\ ~CharAtOffset(res.e.start_loc, MissingCloser(res.e.err))
    /\ ClosedAtEnd =>
           LET d == res.v.value
               end == offset(text, Len(text) - 1)
               start == offset(text, CompositeStart(d))
           IN  from_str(Truncated).res =
                   [k |-> "Err",
                    e |-> IF d.t = "BitSequence"
                          THEN between(ExpectedClosingBracketToMatch(start), end, end + 1)
                          ELSE at_one(ExpectedCloserToMatch(text[Len(text)], start), end)]

\* A named composite in a variant, cut off before its `}`, was refused with
\* the error of the missing `}` after the offset of its `{`.
C11_Witness ==
    /\ pc = "parsed"
    /\ res.k = "Err"
    /\ IsMissingCloser(res.e.err)
    /\ MissingCloser(res.e.err) = "}"
    /\ OpenerOffset(res.e.err) > 0
    /\ res.e.start_loc = offset(text, Len(text))

\* A bit sequence without its `>` was refused.
C11_WitnessBits ==
    /\ pc = "parsed"
    /\ text = <<"<", "0", "1">>
    /\ res = [k |-> "Err", e |-> between(ExpectedClosingBracketToMatch(0), 3, 4)]

(***************************************************************************)
(* Escape codes that are none.                                             *)
(***************************************************************************)

\* Whether the character after the first m of the text is no escape code.
NoEscapeCodeAt(m) == m < Len(text) /\ from_escape_code(text[m + 1]) = None

\* Whether a char literal opens at position j of the text with a backslash
\* and a character that is no escape code.
CharWithBadEscapeAt(j) ==
    /\ j + 2 < Len(text)
    /\ text[j + 1] = "'"
    /\ text[j + 2] = "\\"
    /\ NoEscapeCodeAt(j + 2)

\* Whether a string literal opens at position j of the text and its first
\* backslash, the character after the first m - 1 of the text, comes before
\* a character that is no escape code.
StringWithBadEscapeAt(j, m) ==
    /\ j + 1 < m
    /\ text[j + 1] = "\""
    /\ \A k \in (j + 2)..(m - 1) : text[k] \notin {"\"", "\\"}
    /\ text[m] = "\\"
    /\ NoEscapeCodeAt(m)

\* The span of one character at the offset of the character after the
\* first m of the text.
SpanOfCharAt(kind, m) ==
    [k |-> "Err", e |-> between(kind, offset(text, m), offset(text, m) + 1)]

\* The string literals of C12: the error is from p to p + 1, p being the
\* offset of the character that is no escape code.
C12_StringEscapeErrorAtLetter ==
    pc = "parsed" =>
        \A j \in 0..(Len(text) - 1) : \A m \in 1..(Len(text) - 1) :
            StringWithBadEscapeAt(j, m) =>
                ResultAt(j) = SpanOfCharAt(String_ExpectedValidEscapeCode, m)

\* C12: in a char literal and in a string literal, a backslash before a
\* character that is no escape code fails with ExpectedValidEscapeCode from
\* p to p + 1, p being the offset of that character.
C12_EscapeErrorAtLetter ==
    /\ C12_StringEscapeErrorAtLetter
    /\ pc = "parsed" =>
           \A j \in 0..(Len(text) - 1) :
               CharWithBadEscapeAt(j) =>
                   ResultAt(j) = SpanOfCharAt(Char_ExpectedValidEscapeCode, j + 2)

\* What the code does for the char literal: the error is from the offset
\* after the character that is no escape code.
C12_CharEscapeErrorAfterLetter ==
    pc = "parsed" =>
        \A j \in 0..(Len(text) - 1) :
            CharWithBadEscapeAt(j) =>
                ResultAt(j) = SpanOfCharAt(Char_ExpectedValidEscapeCode, j + 3)

(***************************************************************************)
(* Termination.                                                            *)
(***************************************************************************)

\* Whether from_str of s returns: Ok with a value, or Err with an error that
\* has a start offset, and in both cases a suffix of s as the remaining text.
Returns(s) ==
    LET r == from_str(s)
    IN  /\ r.res.k \in {"Ok", "Err"}
        /\ r.res.k = "Ok" => r.res.v.context = Unit
        /\ r.res.k = "Err" => r.res.e.start_loc \in Nat
        /\ \E n \in 0..Len(s) : r.remaining = remaining(s, n)

\* Whether a loop that has stopped has its cursor, and its flag, where the
\* function of the parser that runs the loop leaves them.
StoppedAsParsed ==
    (pc = "scan" /\ scan.done) =>
        CASE scan.kind \in ClassKinds ->
                 scan.i = skip_tokens_while(text, 0, ClassOf(scan.kind))
          [] scan.kind = "digits" ->
                 number_run(text, 0, FALSE) = [i |-> scan.i, seen_n |-> scan.flag]
          [] scan.kind = "string" ->
                 scan.i = string_loop(text, 0, <<>>, FALSE, 0).i
          [] scan.kind \in {"fields", "values"} ->
                 scan.i = sep_by_err(text, 0, scan.kind = "fields", FALSE, <<>>).i

\* Every iteration of a loop consumes at least one character or stops.
ConsumesOrStops == pc = "scan" => (scan'.i > scan.i \/ scan'.done)

\* The cursor of a loop is within the text.
CursorInText == pc = "scan" => scan.i \in 0..Len(text)

C13_WitnessList ==
    /\ pc = "scan"
    /\ scan.kind = "values"
    /\ scan.done
    /\ Len(sep_by_err(text, 0, FALSE, FALSE, <<>>).v) = 3

(***************************************************************************)
(* The positions of errors.                                                *)
(***************************************************************************)

\* The length of the text in bytes.
TextBytes == ByteLen(text, Len(text))

\* Whether the error e is of a number that does not fit its type.
IsParsingFailed(e) ==
    /\ Len(e.err) = 3
    /\ e.err[1] = "Number"
    /\ e.err[2] = "ParsingFailed"

\* C14: when from_str fails, the start of the error is an offset from 0 to
\* the length of the text; an end, when the error has one, is after the
\* start and at most one past the length of the text: it is the start plus
\* one, except for a number that does not fit, whose error spans the sign
\* and the digits within the text; the errors without an end are
\* ExpectedValue and InvalidFieldName.
C14_ErrorPositions ==
    (pc = "parsed" /\ res.k = "Err") =>
        LET e == res.e
        IN  /\ e.start_loc \in 0..TextBytes
            /\ e.end_loc = None <=> e.err \in {ExpectedValue, InvalidFieldName}
            /\ e.end_loc # None =>
                   /\ e.end_loc.some > e.start_loc
                   /\ e.end_loc.some <= TextBytes + 1
                   /\ IF IsParsingFailed(e) THEN e.end_loc.some <= TextBytes
                      ELSE e.end_loc.some = e.start_loc + 1

\* An error at the end of a text with a character of two bytes: its end is
\* one past the length of the text.
C14_Witness ==
    /\ pc = "parsed"
    /\ res.k = "Err"
    /\ TextBytes > Len(text)
    /\ res.e.start_loc = TextBytes
    /\ res.e.end_loc = Some(TextBytes + 1)

\* A number that does not fit: the error spans more than one character.
C14_WitnessOverflow ==
    /\ pc = "parsed"
    /\ res.k = "Err"
    /\ IsParsingFailed(res.e)
    /\ res.e.start_loc > 0
    /\ res.e.end_loc.some > res.e.start_loc + 1

\* An error without an end, after the start of the text.
C14_WitnessNoEnd ==
    /\ pc = "parsed"
    /\ res.k = "Err"
    /\ res.e.end_loc = None
    /\ res.e.start_loc > 0

====
